---- MODULE Spec2Model ----
(***************************************************************************)
(* Model of src/config/authentication.ts: the Joi rule sets for the        *)
(* authentication configuration shapes and the three validation entry      *)
(* points validateLocalAuthConfig, validateBasicAuthConfig and             *)
(* validateJwtAuthConfig.                                                  *)
(*                                                                         *)
(* JavaScript values are tagged records; a rule set is a record that        *)
(* describes a Joi schema; Joi.validate is the interpreter `validate`.     *)
(***************************************************************************)
EXTENDS Integers, Sequences, FiniteSets, TLC

VARIABLES pc, entry, input, result, outcome, schemas, hist

vars == <<pc, entry, input, result, outcome, schemas, hist>>

(***************************************************************************)
(* Bounds                                                                  *)
(***************************************************************************)
\* longest list given for `group` and `algorithms`
MaxArrayLen == 2
\* number of calls in one run of the sequential specification
MaxCalls == 3

(***************************************************************************)
(* JavaScript values                                                       *)
(***************************************************************************)
Undefined == [t |-> "undefined"]
Num == [t |-> "number"]
Str(s) == [t |-> "string", s |-> s]
Bool(b) == [t |-> "boolean", b |-> b]
Arr(a) == [t |-> "array", a |-> a]
Obj(o) == [t |-> "object", o |-> o]
\* A MiddlewareConfig object; ok is the verdict of the external
\* middleware-config rule set on it.
Middleware(ok) == [t |-> "middleware", ok |-> ok]

\* a string that is the JSON text of a list
JsonArrayText == "[\"a\"]"

\* value[key] of a JavaScript object
Get(o, key) == IF key \in DOMAIN o THEN o[key] ELSE Undefined

\* target[key] = v
Put(o, key, v) == [k \in (DOMAIN o) \cup {key} |-> IF k = key THEN v ELSE o[k]]

(***************************************************************************)
(* Joi schema descriptions                                                 *)
(***************************************************************************)
JoiString == [type |-> "string", presence |-> "optional"]
JoiBoolean == [type |-> "boolean", presence |-> "optional"]
JoiArrayItems(items) == [type |-> "array", presence |-> "optional", items |-> items]
JoiAlternatives(alts) == [type |-> "alternatives", presence |-> "optional", alts |-> alts]
JoiObjectKeys(children) ==
  [type |-> "object", presence |-> "optional", children |-> children,
   dependencies |-> <<>>, allowUnknown |-> FALSE]
Child(key, schema) == [key |-> key, schema |-> schema]
Required(schema) == [schema EXCEPT !.presence = "required"]

ChildKeys(children) == {children[i].key : i \in 1..Len(children)}

\* schema.keys(more): children of `more` replace the children of the same key
\* and are added after the remaining ones
ExtendKeys(schema, more) ==
  [schema EXCEPT !.children =
     SelectSeq(@, LAMBDA c : c.key \notin ChildKeys(more)) \o more]

\* schema.xor(a, b)
Xor(schema, peers) ==
  [schema EXCEPT !.dependencies = Append(@, [type |-> "xor", peers |-> peers])]

\* The rule set of ./middleware, to which every MiddlewareConfig field is
\* delegated.
middlewareConfigValidatorSchema == [type |-> "middleware", presence |-> "optional"]

\* variant: the extractor rule set with .unknown()
jwtRequestExtractorSchema_AllowUnknown ==
  [JoiObjectKeys(<<Child("authHeader", JoiString),
                   Child("bodyField", JoiString),
                   Child("cookie", JoiString),
                   Child("header", JoiString),
                   Child("queryParam", JoiString)>>) EXCEPT !.allowUnknown = TRUE]

\* variant: the extractor rule set with .xor('header', 'cookie')
jwtRequestExtractorSchema_Exclusive ==
  Xor(JoiObjectKeys(<<Child("authHeader", JoiString),
                      Child("bodyField", JoiString),
                      Child("cookie", JoiString),
                      Child("header", JoiString),
                      Child("queryParam", JoiString)>>),
      <<"header", "cookie">>)

jwtRequestExtractorSchema ==
  JoiObjectKeys(<<Child("authHeader", JoiString),
                  Child("bodyField", JoiString),
                  Child("cookie", JoiString),
                  Child("header", JoiString),
                  Child("queryParam", JoiString)>>)

\* variant: audience marked required
jwtAuthenticationSchema_AudienceRequired ==
  JoiObjectKeys(<<Child("algorithms", JoiArrayItems(JoiString)),
                  Child("audience", Required(JoiString)),
                  Child("extractFrom", jwtRequestExtractorSchema),
                  Child("ignoreExpiration", JoiBoolean),
                  Child("issuer", JoiString),
                  Child("secretOrKey", Required(JoiString)),
                  Child("verify", middlewareConfigValidatorSchema)>>)

\* variant: secretOrKey without .required()
jwtAuthenticationSchema_SecretOptional ==
  JoiObjectKeys(<<Child("algorithms", JoiArrayItems(JoiString)),
                  Child("audience", JoiString),
                  Child("extractFrom", jwtRequestExtractorSchema),
                  Child("ignoreExpiration", JoiBoolean),
                  Child("issuer", JoiString),
                  Child("secretOrKey", JoiString),
                  Child("verify", middlewareConfigValidatorSchema)>>)

jwtAuthenticationSchema ==
  JoiObjectKeys(<<Child("algorithms", JoiArrayItems(JoiString)),
                  Child("audience", JoiString),
                  Child("extractFrom", jwtRequestExtractorSchema),
                  Child("ignoreExpiration", JoiBoolean),
                  Child("issuer", JoiString),
                  Child("secretOrKey", Required(JoiString)),
                  Child("verify", middlewareConfigValidatorSchema)>>)

\* variant: verify without .required()
basicAuthenticationSchema_VerifyOptional ==
  JoiObjectKeys(<<Child("verify", middlewareConfigValidatorSchema)>>)

basicAuthenticationSchema ==
  JoiObjectKeys(<<Child("verify", Required(middlewareConfigValidatorSchema))>>)

localAuthenticationSchema ==
  JoiObjectKeys(<<Child("passwordField", JoiString),
                  Child("usernameField", JoiString),
                  Child("verify", Required(middlewareConfigValidatorSchema))>>)

authenticationValidatorSchema ==
  JoiObjectKeys(<<Child("strategy", Required(middlewareConfigValidatorSchema))>>)

\* variant: the extended rule set without .xor('strategy', 'use')
apiAuthenticationValidatorSchema_NoXor ==
  ExtendKeys(authenticationValidatorSchema,
             <<Child("group", JoiAlternatives(<<JoiArrayItems(JoiString), JoiString>>)),
               Child("strategy", middlewareConfigValidatorSchema),
               Child("use", JoiString)>>)

apiAuthenticationValidatorSchema ==
  Xor(ExtendKeys(authenticationValidatorSchema,
                 <<Child("group", JoiAlternatives(<<JoiArrayItems(JoiString), JoiString>>)),
                   Child("strategy", middlewareConfigValidatorSchema),
                   Child("use", JoiString)>>),
      <<"strategy", "use">>)

\* the module-level schema objects, built once when the module is loaded
InitialSchemas ==
  [jwtAuthenticationSchema |-> jwtAuthenticationSchema,
   basicAuthenticationSchema |-> basicAuthenticationSchema,
   localAuthenticationSchema |-> localAuthenticationSchema,
   authenticationValidatorSchema |-> authenticationValidatorSchema,
   apiAuthenticationValidatorSchema |-> apiAuthenticationValidatorSchema]

(***************************************************************************)
(* Joi.validate (default options: convert, abortEarly, no unknown keys)    *)
(***************************************************************************)
NoError == <<>>
Detail(type, path) == [type |-> type, path |-> path]
Ok(value) == [error |-> NoError, value |-> value]
Fail(type, path, value) == [error |-> <<Detail(type, path)>>, value |-> value]

\* JSON.parse guarded by try/catch: a string that is not JSON stays as it is
safeParse(value) ==
  IF value.t = "string" /\ value.s = JsonArrayText THEN Arr(<<Str("a")>>) ELSE value

RECURSIVE SetToSeq(_)
SetToSeq(S) ==
  IF S = {} THEN <<>>
  ELSE LET x == CHOOSE y \in S : TRUE IN <<x>> \o SetToSeq(S \ {x})

validateString(value, path) ==
  IF value.t # "string" THEN Fail("string.base", path, value)
  ELSE IF value.s = "" THEN Fail("any.empty", path, value)
  ELSE Ok(value)

validateBoolean(value, path) ==
  LET converted ==
        IF value.t = "string" /\ value.s = "true" THEN Bool(TRUE)
        ELSE IF value.t = "string" /\ value.s = "false" THEN Bool(FALSE)
        ELSE value
  IN IF converted.t # "boolean" THEN Fail("boolean.base", path, converted)
     ELSE Ok(converted)

validateMiddleware(value, path) ==
  IF value.t = "middleware" /\ value.ok THEN Ok(value)
  ELSE Fail("middleware.invalid", path, value)

\* object.xor: exactly one of the peers is present
xor(dep, target, path) ==
  LET present == {i \in 1..Len(dep.peers) : Get(target, dep.peers[i]) # Undefined}
  IN IF Cardinality(present) = 1 THEN NoError
     ELSE IF present = {} THEN <<Detail("object.missing", path)>>
     ELSE <<Detail("object.xor", path)>>

RECURSIVE validate(_, _, _)
RECURSIVE validateChildren(_, _, _, _)
RECURSIVE validateItems(_, _, _, _)
RECURSIVE validateAlternatives(_, _, _, _, _)
RECURSIVE validateDependencies(_, _, _, _)

\* the children in schema order; the first failing child ends the validation
validateChildren(children, i, target, path) ==
  IF i > Len(children) THEN Ok(target)
  ELSE LET key == children[i].key
           item == Get(target, key)
           r == validate(children[i].schema, item, Append(path, key))
       IN IF r.error # NoError THEN [error |-> r.error, value |-> target]
          ELSE validateChildren(children, i + 1,
                                IF r.value # Undefined THEN Put(target, key, r.value)
                                ELSE target,
                                path)

validateDependencies(deps, i, target, path) ==
  IF i > Len(deps) THEN NoError
  ELSE LET e == xor(deps[i], target, path)
       IN IF e # NoError THEN e ELSE validateDependencies(deps, i + 1, target, path)

validateObject(schema, value, path) ==
  LET parsed == safeParse(value)
  IN IF parsed.t # "object" THEN Fail("object.base", path, value)
     ELSE LET c == validateChildren(schema.children, 1, parsed.o, path)
              unprocessed == SetToSeq(DOMAIN c.value \ ChildKeys(schema.children))
              d == validateDependencies(schema.dependencies, 1, c.value, path)
          IN IF c.error # NoError THEN [error |-> c.error, value |-> Obj(c.value)]
             ELSE IF unprocessed # <<>> /\ ~schema.allowUnknown
               THEN [error |-> [i \in 1..Len(unprocessed) |->
                                  Detail("object.allowUnknown", Append(path, unprocessed[i]))],
                     value |-> Obj(c.value)]
             ELSE [error |-> d, value |-> Obj(c.value)]

\* the items in order, each against the one item schema
validateItems(items, i, a, path) ==
  IF i > Len(a) THEN Ok(a)
  ELSE LET r == validate(items, a[i], Append(path, ToString(i - 1)))
       IN IF r.error # NoError THEN [error |-> r.error, value |-> a]
          ELSE validateItems(items, i + 1, [a EXCEPT ![i] = r.value], path)

validateArray(schema, value, path) ==
  LET parsed == safeParse(value)
  IN IF parsed.t # "array" THEN Fail("array.base", path, parsed)
     ELSE LET r == validateItems(schema.items, 1, parsed.a, path)
          IN [error |-> r.error, value |-> Arr(r.value)]

\* the first alternative that matches gives the value
validateAlternatives(alts, i, value, path, errors) ==
  IF i > Len(alts) THEN [error |-> errors, value |-> value]
  ELSE LET r == validate(alts[i], value, path)
       IN IF r.error = NoError THEN r
          ELSE validateAlternatives(alts, i + 1, value, path, errors \o r.error)

validate(schema, value, path) ==
  IF value = Undefined
    THEN IF schema.presence = "required" THEN Fail("any.required", path, value)
         ELSE Ok(value)
  ELSE CASE schema.type = "string" -> validateString(value, path)
         [] schema.type = "boolean" -> validateBoolean(value, path)
         [] schema.type = "middleware" -> validateMiddleware(value, path)
         [] schema.type = "array" -> validateArray(schema, value, path)
         [] schema.type = "alternatives" ->
              validateAlternatives(schema.alts, 1, value, path, NoError)
         [] schema.type = "object" -> validateObject(schema, value, path)

\* Joi.validate(config, schema)
JoiValidate(config, schema) == validate(schema, config, <<>>)

(***************************************************************************)
(* ValidationError of ./errors: wraps the Joi error it is built from       *)
(***************************************************************************)
ValidationError(entity) == [name |-> "ValidationError", entity |-> entity]
NothingThrown == [name |-> "none", entity |-> NoError]

\* how a call ends: `return value` or `throw error`
Return(value) ==
  [returned |-> TRUE, thrown |-> FALSE, value |-> value, error |-> NothingThrown]
Throw(error) ==
  [returned |-> FALSE, thrown |-> TRUE, value |-> Undefined, error |-> error]
NoOutcome ==
  [returned |-> FALSE, thrown |-> FALSE, value |-> Undefined, error |-> NothingThrown]
NoResult == [error |-> NoError, value |-> Undefined]

(***************************************************************************)
(* The validation entry points                                             *)
(***************************************************************************)
validateLocalAuthConfig(config) ==
  LET r == JoiValidate(config, schemas.localAuthenticationSchema)
  IN IF r.error # NoError THEN Throw(ValidationError(r.error)) ELSE Return(r.value)

\* variant: the error branch is missing, the value is returned in any case
validateBasicAuthConfig_Swallow(config) ==
  LET r == JoiValidate(config, schemas.basicAuthenticationSchema)
  IN Return(r.value)

validateBasicAuthConfig(config) ==
  LET r == JoiValidate(config, schemas.basicAuthenticationSchema)
  IN IF r.error # NoError THEN Throw(ValidationError(r.error)) ELSE Return(r.value)

\* variant: the outcome of the previous call is kept and handed out again
validateJwtAuthConfig_Cached(config) ==
  LET r == JoiValidate(config, schemas.jwtAuthenticationSchema)
  IN IF hist # <<>> THEN hist[Len(hist)].outcome
     ELSE IF r.error # NoError THEN Throw(ValidationError(r.error)) ELSE Return(r.value)

validateJwtAuthConfig(config) ==
  LET r == JoiValidate(config, schemas.jwtAuthenticationSchema)
  IN IF r.error # NoError THEN Throw(ValidationError(r.error)) ELSE Return(r.value)

(***************************************************************************)
(* Candidate configurations                                                *)
(***************************************************************************)
\* the object with the defined fields of f
MkObj(f) == Obj([k \in {x \in DOMAIN f : f[x] # Undefined} |-> f[k]])

Lists(items, n) == UNION {[1..k -> items] : k \in 0..n}

StringField == {Undefined, Str("a"), Str(""), Num}
MiddlewareField == {Undefined, Middleware(TRUE), Middleware(FALSE)}
UnknownField == {Undefined, Str("x")}
BooleanField == {Undefined, Bool(TRUE), Str("true"), Num}
AlgorithmsField ==
  {Undefined, Num} \cup {Arr(a) : a \in Lists({Str("HS256"), Str("")}, MaxArrayLen)}
GroupField ==
  {Undefined, Num, Str("admins"), Str(""), Str(JsonArrayText)}
    \cup {Arr(a) : a \in Lists({Str("a"), Str("b"), Str("")}, MaxArrayLen)}

ExtractorFields == {"authHeader", "bodyField", "cookie", "header", "queryParam"}
Extractors ==
  {MkObj(f) : f \in [ExtractorFields -> {Undefined, Str("h"), Str("")}]}
    \cup {MkObj(f) : f \in [ExtractorFields \cup {"extra"} -> {Undefined, Str("h")}]}

LocalCandidates ==
  {MkObj(f) : f \in [passwordField : StringField, usernameField : StringField,
                     verify : MiddlewareField, extra : UnknownField]}

BasicCandidates ==
  {MkObj(f) : f \in [verify : MiddlewareField, extra : UnknownField,
                     usernameField : {Undefined, Str("a")}]}

JwtCandidates ==
  {MkObj(f) : f \in [algorithms : AlgorithmsField,
                     audience : {Undefined, Str("a")},
                     extractFrom : {Undefined, Num, Obj([header |-> Str("h")])},
                     ignoreExpiration : BooleanField,
                     issuer : StringField,
                     secretOrKey : StringField,
                     verify : MiddlewareField,
                     extra : UnknownField]}
    \cup {MkObj(f) : f \in [secretOrKey : {Undefined, Str("k")}, extractFrom : Extractors]}

AuthenticationCandidates ==
  {MkObj(f) : f \in [strategy : MiddlewareField, extra : UnknownField,
                     use : {Undefined, Str("foo")}]}

ApiAuthenticationCandidates ==
  {MkObj(f) : f \in [group : GroupField, strategy : MiddlewareField,
                     use : {Undefined, Str("foo"), Str(""), Num},
                     extra : UnknownField]}

Candidates(e) ==
  CASE e = "validateLocalAuthConfig" -> LocalCandidates
    [] e = "validateBasicAuthConfig" -> BasicCandidates
    [] e = "validateJwtAuthConfig" -> JwtCandidates
    [] e = "authenticationValidatorSchema" -> AuthenticationCandidates
    [] e = "apiAuthenticationValidatorSchema" -> ApiAuthenticationCandidates

EntryPoints == {"validateLocalAuthConfig", "validateBasicAuthConfig", "validateJwtAuthConfig"}
Entries == EntryPoints \cup {"authenticationValidatorSchema", "apiAuthenticationValidatorSchema"}

\* the calls of the sequential specification
SeqCandidates(e) ==
  CASE e = "validateLocalAuthConfig" ->
         {MkObj(f) : f \in [passwordField : {Undefined, Num},
                            verify : {Undefined, Middleware(TRUE)}]}
    [] e = "validateBasicAuthConfig" ->
         {MkObj(f) : f \in [verify : MiddlewareField]}
    [] e = "validateJwtAuthConfig" ->
         {MkObj(f) : f \in [secretOrKey : {Undefined, Str("k")},
                            ignoreExpiration : {Undefined, Str("true")}]}

(***************************************************************************)
(* State machine                                                           *)
(***************************************************************************)
Init ==
  /\ pc = "ready"
  /\ entry \in Entries
  /\ input \in Candidates(entry)
  /\ result = NoResult
  /\ outcome = NoOutcome
  /\ schemas = InitialSchemas
  /\ hist = <<>>

Record(e, config, out) == [entry |-> e, input |-> config, outcome |-> out]

CallValidateLocalAuthConfig ==
  /\ pc = "ready" /\ entry = "validateLocalAuthConfig"
  /\ result' = JoiValidate(input, schemas.localAuthenticationSchema)
  /\ outcome' = validateLocalAuthConfig(input)
  /\ hist' = Append(hist, Record(entry, input, outcome'))
  /\ pc' = "done"
  /\ UNCHANGED <<entry, input, schemas>>

CallValidateBasicAuthConfig ==
  /\ pc = "ready" /\ entry = "validateBasicAuthConfig"
  /\ result' = JoiValidate(input, schemas.basicAuthenticationSchema)
  /\ outcome' = validateBasicAuthConfig(input)
  /\ hist' = Append(hist, Record(entry, input, outcome'))
  /\ pc' = "done"
  /\ UNCHANGED <<entry, input, schemas>>

CallValidateJwtAuthConfig ==
  /\ pc = "ready" /\ entry = "validateJwtAuthConfig"
  /\ result' = JoiValidate(input, schemas.jwtAuthenticationSchema)
  /\ outcome' = validateJwtAuthConfig(input)
  /\ hist' = Append(hist, Record(entry, input, outcome'))
  /\ pc' = "done"
  /\ UNCHANGED <<entry, input, schemas>>

\* a caller validates a candidate against the exported schema
ValidateAuthentication ==
  /\ pc = "ready" /\ entry = "authenticationValidatorSchema"
  /\ result' = JoiValidate(input, schemas.authenticationValidatorSchema)
  /\ hist' = Append(hist, Record(entry, input, outcome))
  /\ pc' = "done"
  /\ UNCHANGED <<entry, input, outcome, schemas>>

ValidateApiAuthentication ==
  /\ pc = "ready" /\ entry = "apiAuthenticationValidatorSchema"
  /\ result' = JoiValidate(input, schemas.apiAuthenticationValidatorSchema)
  /\ hist' = Append(hist, Record(entry, input, outcome))
  /\ pc' = "done"
  /\ UNCHANGED <<entry, input, outcome, schemas>>

Next ==
  \/ CallValidateLocalAuthConfig
  \/ CallValidateBasicAuthConfig
  \/ CallValidateJwtAuthConfig
  \/ ValidateAuthentication
  \/ ValidateApiAuthentication

Spec == Init /\ [][Next]_vars

\* Sequential specification: the caller makes up to MaxCalls calls, one after
\* the other, to the three entry points.
InitSeq ==
  /\ pc = "ready"
  /\ entry \in EntryPoints
  /\ input \in SeqCandidates(entry)
  /\ result = NoResult
  /\ outcome = NoOutcome
  /\ schemas = InitialSchemas
  /\ hist = <<>>

NextCall ==
  /\ pc = "done" /\ Len(hist) < MaxCalls
  /\ entry' \in EntryPoints
  /\ input' \in SeqCandidates(entry')
  /\ pc' = "ready"
  /\ UNCHANGED <<result, outcome, schemas, hist>>

NextSeq ==
  \/ CallValidateLocalAuthConfig
  \/ CallValidateBasicAuthConfig
  \/ CallValidateJwtAuthConfig
  \/ NextCall

SpecSeq == InitSeq /\ [][NextSeq]_vars

(***************************************************************************)
(* Properties                                                              *)
(***************************************************************************)
Done(e) == pc = "done" /\ entry = e
Accepted == result.error = NoError
Has(key) == key \in DOMAIN input.o
Field(key) == Get(input.o, key)
Range(seq) == {seq[i] : i \in 1..Len(seq)}
IsString(v) == v.t = "string"
IsNonEmptyString(v) == v.t = "string" /\ v.s # ""

\* the rule set an entry validates against
SchemaOf(e) ==
  CASE e = "validateLocalAuthConfig" -> schemas.localAuthenticationSchema
    [] e = "validateBasicAuthConfig" -> schemas.basicAuthenticationSchema
    [] e = "validateJwtAuthConfig" -> schemas.jwtAuthenticationSchema
    [] e = "authenticationValidatorSchema" -> schemas.authenticationValidatorSchema
    [] e = "apiAuthenticationValidatorSchema" -> schemas.apiAuthenticationValidatorSchema

\* the thrown error wraps a violation of the given type on the given field
Wraps(type, path) ==
  /\ outcome.thrown
  /\ outcome.error.name = "ValidationError"
  /\ Detail(type, path) \in Range(outcome.error.entity)

\* C1: a LocalAuthentication candidate with a valid verify and neither
\* usernameField nor passwordField is accepted, and the returned value has
\* usernameField "username" and passwordField "password".
C1_LocalDefaultsApplied ==
  (Done("validateLocalAuthConfig") /\ DOMAIN input.o = {"verify"}
     /\ Field("verify") = Middleware(TRUE))
    => /\ outcome.returned
       /\ outcome.value.t = "object"
       /\ Get(outcome.value.o, "usernameField") = Str("username")
       /\ Get(outcome.value.o, "passwordField") = Str("password")

\* C2: an accepted ApiAuthenticationConfig candidate has its group
\* normalized: a bare string s becomes the list [s], a list stays as given.
C2_GroupNormalized ==
  (Done("apiAuthenticationValidatorSchema") /\ Accepted /\ Has("group"))
    => /\ IsString(Field("group"))
            => Get(result.value.o, "group") = Arr(<<Field("group")>>)
       /\ Field("group").t = "array"
            => Get(result.value.o, "group") = Field("group")

ValidGroups ==
  {Undefined, Str("admins"), Str(JsonArrayText)}
    \cup {Arr(a) : a \in Lists({Str("a"), Str("b")}, MaxArrayLen)}

ApiCase ==
  /\ Done("apiAuthenticationValidatorSchema")
  /\ Field("group") \in ValidGroups
  /\ ~Has("extra")

\* C3 as stated: with a valid or absent group, only use (any string) is
\* accepted, only a valid strategy is accepted, neither is rejected, both is
\* rejected.
C3_ExactlyOneOfStrategyUse_Original ==
  ApiCase =>
    /\ (~Has("strategy") /\ IsString(Field("use"))) => Accepted
    /\ (Field("strategy") = Middleware(TRUE) /\ ~Has("use")) => Accepted
    /\ (~Has("strategy") /\ ~Has("use")) => ~Accepted
    /\ (Has("strategy") /\ Has("use")) => ~Accepted

\* C3 amended: with a valid or absent group, only use (a non-empty string) is
\* accepted, only a valid strategy is accepted, neither is rejected, both is
\* rejected.
C3_ExactlyOneOfStrategyUse ==
  ApiCase =>
    /\ (~Has("strategy") /\ IsNonEmptyString(Field("use"))) => Accepted
    /\ (Field("strategy") = Middleware(TRUE) /\ ~Has("use")) => Accepted
    /\ (~Has("strategy") /\ ~Has("use")) => ~Accepted
    /\ (Has("strategy") /\ Has("use")) => ~Accepted

C3_Witness ==
  /\ ApiCase
  /\ Field("strategy") = Middleware(TRUE) /\ Field("use") = Str("foo")
  /\ Field("group") = Str("admins")
  /\ result.error = <<Detail("object.xor", <<>>)>>

\* the undeclared fields of a candidate: at the top level and inside extractFrom
TopUndeclared(e, o) == DOMAIN o \ ChildKeys(SchemaOf(e).children)
NestedUndeclared(e, o) ==
  IF e = "validateJwtAuthConfig" /\ Get(o, "extractFrom").t = "object"
    THEN DOMAIN o.extractFrom.o \ ExtractorFields
    ELSE {}
Restrict(o, keys) == [k \in DOMAIN o \cap keys |-> o[k]]
\* the candidate without its undeclared fields
Declared(e, o) ==
  LET top == Restrict(o, ChildKeys(SchemaOf(e).children))
  IN IF NestedUndeclared(e, o) = {} THEN Obj(top)
     ELSE Obj(Put(top, "extractFrom", Obj(Restrict(o.extractFrom.o, ExtractorFields))))

OneUndeclaredField ==
  /\ pc = "done"
  /\ Cardinality(TopUndeclared(entry, input.o))
       + Cardinality(NestedUndeclared(entry, input.o)) = 1
  /\ JoiValidate(Declared(entry, input.o), SchemaOf(entry)).error = NoError

\* C4: every shape takes the same decision on an otherwise valid candidate
\* with one undeclared field (also one nested in extractFrom): it is rejected
\* as a field that is not allowed; the entry points throw.
C4_UnknownFieldRejected ==
  OneUndeclaredField =>
    /\ ~Accepted
    /\ \A i \in 1..Len(result.error) : result.error[i].type = "object.allowUnknown"
    /\ entry \in EntryPoints => outcome.thrown /\ ~outcome.returned

C4_Witness ==
  /\ OneUndeclaredField
  /\ entry = "validateJwtAuthConfig"
  /\ NestedUndeclared(entry, input.o) = {"extra"}
  /\ Wraps("object.allowUnknown", <<"extractFrom", "extra">>)

JwtKeys == ChildKeys(jwtAuthenticationSchema.children)

\* every field of a JWTAuthentication candidate is absent or of its declared
\* type; str is the condition on the string values
JwtDeclaredTypes(o, str(_)) ==
  /\ DOMAIN o \subseteq JwtKeys
  /\ \A k \in {"audience", "issuer"} : k \in DOMAIN o => str(o[k])
  /\ "algorithms" \in DOMAIN o =>
       /\ o.algorithms.t = "array"
       /\ \A i \in 1..Len(o.algorithms.a) : str(o.algorithms.a[i])
  /\ "ignoreExpiration" \in DOMAIN o => o.ignoreExpiration.t = "boolean"
  /\ "extractFrom" \in DOMAIN o =>
       /\ o.extractFrom.t = "object"
       /\ DOMAIN o.extractFrom.o \subseteq ExtractorFields
       /\ \A k \in DOMAIN o.extractFrom.o : str(o.extractFrom.o[k])
  /\ "verify" \in DOMAIN o => o.verify = Middleware(TRUE)

SecretReturned ==
  /\ outcome.returned /\ ~outcome.thrown
  /\ outcome.value.t = "object"
  /\ Get(outcome.value.o, "secretOrKey") = Field("secretOrKey")

\* C5 as stated: secretOrKey a string and every other field absent or of its
\* declared type: the call returns a value with the same secretOrKey.
C5_ValidJwtAccepted_Original ==
  (Done("validateJwtAuthConfig") /\ IsString(Field("secretOrKey"))
     /\ JwtDeclaredTypes(input.o, IsString))
    => SecretReturned

\* C5 amended: secretOrKey a non-empty string and every other field absent or
\* of its declared type with no empty string in it: the call returns a value
\* with the same secretOrKey.
C5_ValidJwtAccepted ==
  (Done("validateJwtAuthConfig") /\ IsNonEmptyString(Field("secretOrKey"))
     /\ JwtDeclaredTypes(input.o, IsNonEmptyString))
    => SecretReturned

C5_Witness ==
  /\ Done("validateJwtAuthConfig")
  /\ JwtDeclaredTypes(input.o, IsNonEmptyString)
  /\ DOMAIN input.o = JwtKeys
  /\ SecretReturned

\* the fields that are validated before the given one are absent or valid
EarlierFieldsPass(schema, key) ==
  \A i \in 1..Len(schema.children) :
    LET c == schema.children[i]
    IN (\E j \in (i + 1)..Len(schema.children) : schema.children[j].key = key)
         => validate(c.schema, Field(c.key), <<c.key>>).error = NoError

\* the thrown error wraps the violation of a field validated before the given one
WrapsEarlierField(schema, key) ==
  /\ outcome.thrown
  /\ outcome.error.name = "ValidationError"
  /\ Detail("any.required", <<key>>) \notin Range(outcome.error.entity)
  /\ \E i \in 1..Len(schema.children) :
       /\ \E j \in (i + 1)..Len(schema.children) : schema.children[j].key = key
       /\ \A d \in Range(outcome.error.entity) : d.path[1] = schema.children[i].key

\* C6 as stated: a JWTAuthentication candidate without secretOrKey, whatever
\* its other fields, returns nothing and throws a ValidationError that wraps
\* the required-field violation on secretOrKey.
C6_MissingSecretRequired_Original ==
  (Done("validateJwtAuthConfig") /\ ~Has("secretOrKey"))
    => ~outcome.returned /\ Wraps("any.required", <<"secretOrKey">>)

\* C6 amended: a JWTAuthentication candidate without secretOrKey returns
\* nothing and throws a ValidationError; it wraps the required-field
\* violation on secretOrKey when the fields validated before secretOrKey are
\* absent or valid, and the violation of such a field otherwise.
C6_MissingSecretRequired ==
  (Done("validateJwtAuthConfig") /\ ~Has("secretOrKey"))
    => /\ ~outcome.returned /\ outcome.thrown
       /\ outcome.value = Undefined
       /\ outcome.error.name = "ValidationError"
       /\ IF EarlierFieldsPass(jwtAuthenticationSchema, "secretOrKey")
            THEN Wraps("any.required", <<"secretOrKey">>)
            ELSE WrapsEarlierField(jwtAuthenticationSchema, "secretOrKey")

C6_Witness ==
  /\ Done("validateJwtAuthConfig") /\ ~Has("secretOrKey")
  /\ Field("issuer") = Str("a") /\ Field("verify") = Middleware(FALSE)
  /\ Has("extra")
  /\ outcome = Throw(ValidationError(<<Detail("any.required", <<"secretOrKey">>)>>))

\* C7 as stated: a Basic or Local candidate without verify throws a
\* ValidationError that wraps the required-field violation on verify.
C7_MissingVerifyRequired_Original ==
  ((Done("validateBasicAuthConfig") \/ Done("validateLocalAuthConfig"))
     /\ ~Has("verify"))
    => ~outcome.returned /\ Wraps("any.required", <<"verify">>)

\* C7 amended: a Basic candidate without verify throws a ValidationError that
\* wraps the required-field violation on verify; so does a Local candidate
\* whose passwordField and usernameField are absent or valid, and a Local
\* candidate with an invalid one throws a ValidationError that wraps the
\* violation of that field.
C7_MissingVerifyRequired ==
  /\ (Done("validateBasicAuthConfig") /\ ~Has("verify"))
       => ~outcome.returned /\ Wraps("any.required", <<"verify">>)
  /\ (Done("validateLocalAuthConfig") /\ ~Has("verify"))
       => /\ ~outcome.returned /\ outcome.thrown
          /\ outcome.error.name = "ValidationError"
          /\ IF EarlierFieldsPass(localAuthenticationSchema, "verify")
               THEN Wraps("any.required", <<"verify">>)
               ELSE WrapsEarlierField(localAuthenticationSchema, "verify")

C7_Witness ==
  /\ Done("validateLocalAuthConfig") /\ ~Has("verify")
  /\ Field("usernameField") = Str("a") /\ Field("passwordField") = Str("a")
  /\ outcome = Throw(ValidationError(<<Detail("any.required", <<"verify">>)>>))

\* C8: a finished call of an entry point has either returned the value Joi
\* produced, with no error, or thrown a ValidationError wrapping Joi's error,
\* with no value; never both and never neither.
C8_ReturnOrThrow ==
  (pc = "done" /\ entry \in EntryPoints)
    => /\ outcome.returned # outcome.thrown
       /\ outcome.returned <=> result.error = NoError
       /\ outcome.returned
            => outcome.value = result.value /\ outcome.error = NothingThrown
       /\ outcome.thrown
            => outcome.value = Undefined
                 /\ outcome.error = ValidationError(result.error)

C8_Witness ==
  /\ Done("validateJwtAuthConfig")
  /\ outcome.thrown /\ ~outcome.returned
  /\ outcome.value = Undefined
  /\ result.value # input /\ result.value # Undefined

ExtractorCase(str(_)) ==
  /\ Done("validateJwtAuthConfig")
  /\ DOMAIN input.o = {"secretOrKey", "extractFrom"}
  /\ Field("secretOrKey") = Str("k")
  /\ Field("extractFrom").t = "object"
  /\ DOMAIN Field("extractFrom").o \subseteq ExtractorFields
  /\ \A k \in DOMAIN Field("extractFrom").o : str(Field("extractFrom").o[k])

\* C10 as stated: an extractFrom with any subset of the five locations set
\* to strings is accepted.
C10_NoExtractorExclusivity_Original ==
  ExtractorCase(IsString) => outcome.returned /\ ~outcome.thrown

\* C10 amended: an extractFrom with any subset of the five locations set to
\* non-empty strings is accepted and returned as given.
C10_NoExtractorExclusivity ==
  ExtractorCase(IsNonEmptyString)
    => outcome.returned /\ ~outcome.thrown /\ outcome.value = input

C10_Witness ==
  /\ ExtractorCase(IsNonEmptyString)
  /\ DOMAIN Field("extractFrom").o = ExtractorFields
  /\ outcome.returned

====
